---- MODULE Spec2Model ----
(***************************************************************************)
(* A model of issue57949 (main.go): the classifier MatchOf/GetIdentFrom,   *)
(* the accumulators Count/Tally, the walker CountPackage and the driver    *)
(* Main.                                                                   *)
(*                                                                         *)
(* The uint64 fields of Count and Tally are modelled as naturals: every    *)
(* guard keeps them far below 2^64, so no addition of the model wraps.     *)
(***************************************************************************)
EXTENDS Integers, Sequences, FiniteSets, TLC

VARIABLES
    pc,         \* where the run stands (per specification, see the Init's)
    kv,         \* SpecMatch: the key/value pair handed to MatchOf, as <<kv>>
    m,          \* SpecMatch: the *Match returned, <<>> for nil, <<match>> otherwise
    rec,        \* SpecMatch: the Count after New("").Count(m)
    pool,       \* SpecCount: the Counts a client holds, by name
    tallies,    \* SpecTally: the Tallys a client holds, by name
    ps,         \* Main: the packages the loader returned
    cancelled,  \* Main: ctx.Done() is closed (os.Interrupt was delivered)
    walked,     \* Main: per started walk, whether ctx was cancelled when it began
    next,       \* Main: index in ps of the package the range loop is at
    count,      \* CountPackage: the Count under construction, <<>> outside a walk
    file,       \* CountPackage: index in p.Syntax of the file being inspected
    stack,      \* ast.Inspect: the nodes still to visit, in pre-order
    total,      \* Main: the <total> Count
    counts,     \* Main: the slice counts
    out         \* Main: the values handed to fmt.Println, in order

vars == <<pc, kv, m, rec, pool, tallies, ps, cancelled, walked, next, count, file, stack,
          total, counts, out>>

(***************************************************************************)
(* Bounds of the model.                                                    *)
(***************************************************************************)
MaxValueNodes == 3
MaxTotal == 3
MaxKV == 3
MaxPkgNodes == 4
MaxPkgs == 2

(***************************************************************************)
(* Names.  A name is a sequence of characters; key == name is equality of  *)
(* the sequences and strings.EqualFold compares them character by          *)
(* character under case folding.                                           *)
(***************************************************************************)
SimpleFold(ch) ==
    CASE ch = "X" -> "x"
      [] ch = "Y" -> "y"
      [] OTHER -> ch

EqualFold(s, t) ==
    /\ Len(s) = Len(t)
    /\ \A i \in 1..Len(s) : SimpleFold(s[i]) = SimpleFold(t[i])

Names == {<<"X">>, <<"x">>, <<"y">>, <<"X", "y">>, <<"x", "Y">>}

(***************************************************************************)
(* go/ast nodes.  Every node is a record of the same shape: Kind is the    *)
(* node's dynamic type, Name an identifier's name, Op a unary operator,    *)
(* Struct whether TypesInfo gives the literal a type whose Underlying() is *)
(* a *types.Struct, and Kids the child nodes ast.Inspect descends into,    *)
(* in order.                                                               *)
(***************************************************************************)
Node(kind, name, op, struct, kids) ==
    [Kind |-> kind, Name |-> name, Op |-> op, Struct |-> struct, Kids |-> kids]

Ident(name) == Node("Ident", name, "", FALSE, <<>>)
BasicLit == Node("BasicLit", <<>>, "", FALSE, <<>>)
\* X.Sel: Kids = <<X, Sel>>
SelectorExpr(x, sel) == Node("SelectorExpr", <<>>, "", FALSE, <<x, Ident(sel)>>)
\* *X
StarExpr(x) == Node("StarExpr", <<>>, "", FALSE, <<x>>)
\* Op X, Op one of "&" (token.AND), "-", ...
UnaryExpr(op, x) == Node("UnaryExpr", <<>>, op, FALSE, <<x>>)
\* f(args): the callee is left out, Kids are the arguments
CallExpr(args) == Node("CallExpr", <<>>, "", FALSE, args)
\* Key: Value, Kids = <<Key, Value>>; a struct literal's key is an *ast.Ident
KeyValueExpr(key, value) == Node("KeyValueExpr", <<>>, "", FALSE, <<Ident(key), value>>)
\* T{Elts}: Kids are the elements
CompositeLit(struct, elts) == Node("CompositeLit", <<>>, "", struct, elts)
\* a file: Kids are the expressions of its declarations
File(exprs) == Node("File", <<>>, "", FALSE, exprs)

KeyOf(n) == n.Kids[1]
ValueOf(n) == n.Kids[2]

UnaryOps == {"&", "-"}

(***************************************************************************)
(* The syntax trees of a given number of expression nodes (a KeyValueExpr  *)
(* with its key, and a selector's Sel, come with the expression they       *)
(* belong to).  P gives the vocabulary: P.Leaves the one-node expressions, *)
(* P.N the selected names, P.K the keys, P.Ops the unary operators and     *)
(* P.Wrap the kinds of node that may have children.  Forests(P, n, keyed)  *)
(* are the element lists of n nodes, with key/value elements among them    *)
(* when keyed.                                                             *)
(***************************************************************************)
RECURSIVE Exprs(_, _), Forests(_, _, _)
Exprs(P, n) ==
    IF n <= 0 THEN {}
    ELSE IF n = 1 THEN P.Leaves
    ELSE (IF "StarExpr" \in P.Wrap
          THEN {StarExpr(e) : e \in Exprs(P, n - 1)} ELSE {})
           \cup {UnaryExpr(o, e) : o \in P.Ops, e \in Exprs(P, n - 1)}
           \cup {SelectorExpr(e, s) : e \in Exprs(P, n - 1), s \in P.N}
           \cup (IF "CallExpr" \in P.Wrap
                 THEN {CallExpr(f) : f \in Forests(P, n - 1, FALSE)} ELSE {})
           \cup (IF "CompositeLit" \in P.Wrap
                 THEN {CompositeLit(s, f) : s \in BOOLEAN, f \in Forests(P, n - 1, TRUE)}
                 ELSE {})

Forests(P, n, keyed) ==
    IF n <= 0 THEN {<<>>}
    ELSE UNION {
        LET heads == Exprs(P, k) \cup
                     (IF keyed
                      THEN {KeyValueExpr(key, e) : key \in P.K, e \in Exprs(P, k)}
                      ELSE {})
        IN  {<<h>> \o f : h \in heads, f \in Forests(P, n - k, keyed)}
        : k \in 1..n}

ExprsUpTo(P, n) == UNION {Exprs(P, k) : k \in 1..n}

(***************************************************************************)
(* type Match, MatchOf, GetIdentFrom                                       *)
(***************************************************************************)
\* GetIdentFrom taking the Sel of any selector, whatever its X
GetIdentFromAnySelector(n) ==
    CASE n.Kind = "Ident" -> [ident |-> <<n>>, selector |-> FALSE]
      [] n.Kind = "SelectorExpr" -> [ident |-> <<n.Kids[2]>>, selector |-> TRUE]
      [] OTHER -> [ident |-> <<>>, selector |-> FALSE]

\* GetIdentFrom(n): (ident, selector); ident is <<>> for nil
GetIdentFrom(n) ==
    CASE n.Kind = "Ident" -> [ident |-> <<n>>, selector |-> FALSE]
      [] n.Kind = "SelectorExpr" ->
            IF n.Kids[1].Kind = "Ident"
            THEN [ident |-> <<n.Kids[2]>>, selector |-> TRUE]
            ELSE [ident |-> <<>>, selector |-> FALSE]
      [] OTHER -> [ident |-> <<>>, selector |-> FALSE]

\* NameMatch counting a partial match for name.name too
NameMatchQualifiedPartial(key, name, Selector) ==
    LET Identical == key = name
    IN  [Identical |-> Identical,
         Partial |-> ~Identical /\ EqualFold(key, name)]

\* NameMatch taking names that differ in case for identical
NameMatchFoldIdentical(key, name, Selector) ==
    LET Identical == EqualFold(key, name)
    IN  [Identical |-> Identical,
         Partial |-> ~Identical /\ ~Selector /\ EqualFold(key, name)]

\* Identical and partial of MatchOf, from key, name and Selector
NameMatch(key, name, Selector) ==
    LET Identical == key = name
    IN  [Identical |-> Identical,
         Partial |-> ~Identical /\ ~Selector /\ EqualFold(key, name)]

\* MatchOf(kv): <<>> for a nil *Match
MatchOf(e) ==
    LET v == ValueOf(e)
        Star == v.Kind = "StarExpr"
        Amp == v.Kind = "UnaryExpr" /\ v.Op = "&"
        g == IF Star \/ Amp THEN GetIdentFrom(v.Kids[1]) ELSE GetIdentFrom(v)
        Selector == g.selector
    IN  IF g.ident = <<>> THEN <<>>
        ELSE LET nm == NameMatch(KeyOf(e).Name, g.ident[1].Name, Selector)
             IN  <<[Regular |-> ~Star /\ ~Amp /\ ~Selector,
                    Partial |-> nm.Partial,
                    Identical |-> nm.Identical,
                    Star |-> Star,
                    Amp |-> Amp,
                    Selector |-> Selector]>>

(***************************************************************************)
(* type Tally, type Count                                                  *)
(***************************************************************************)
ZeroTally == [Total |-> 0, Exact |-> 0, EqualsFold |-> 0]

\* Tally.Count with "if EqualsFold" in place of "else if EqualsFold"
TallyCountBoth(t, Exact, EqualsFold) ==
    [Total |-> t.Total + 1,
     Exact |-> IF Exact THEN t.Exact + 1 ELSE t.Exact,
     EqualsFold |-> IF EqualsFold THEN t.EqualsFold + 1 ELSE t.EqualsFold]

TallyCount(t, Exact, EqualsFold) ==
    [Total |-> t.Total + 1,
     Exact |-> IF Exact THEN t.Exact + 1 ELSE t.Exact,
     EqualsFold |-> IF ~Exact /\ EqualsFold THEN t.EqualsFold + 1 ELSE t.EqualsFold]

TallyAdd(t, o) ==
    [Total |-> t.Total + o.Total,
     Exact |-> t.Exact + o.Exact,
     EqualsFold |-> t.EqualsFold + o.EqualsFold]

TallyNames == {"Ident", "QualifiedIdent", "Star", "QualifiedStar", "Amp", "QualifiedAmp"}
QualifiedNames == {"QualifiedIdent", "QualifiedStar", "QualifiedAmp"}

New(ID) ==
    [ID |-> ID, Literals |-> 0, KV |-> 0, NotIdent |-> 0,
     Ident |-> ZeroTally, QualifiedIdent |-> ZeroTally,
     Star |-> ZeroTally, QualifiedStar |-> ZeroTally,
     Amp |-> ZeroTally, QualifiedAmp |-> ZeroTally]

\* the tally the switch of Count.Count selects
TallyFor(mt) ==
    CASE mt.Regular -> "Ident"
      [] ~mt.Regular /\ mt.Star -> IF mt.Selector THEN "QualifiedStar" ELSE "Star"
      [] ~mt.Regular /\ ~mt.Star /\ mt.Amp -> IF mt.Selector THEN "QualifiedAmp" ELSE "Amp"
      [] ~mt.Regular /\ ~mt.Star /\ ~mt.Amp /\ mt.Selector -> "QualifiedIdent"

\* Count.Count with c.KV++ after the return of the nil case
CountCountKVAfterNil(c, mp) ==
    IF mp = <<>>
    THEN [c EXCEPT !.NotIdent = @ + 1]
    ELSE LET t == TallyFor(mp[1])
         IN  [c EXCEPT !.KV = @ + 1,
                       ![t] = TallyCount(@, mp[1].Identical, mp[1].Partial)]

\* c.Count(m)
CountCount(c, mp) ==
    LET c1 == [c EXCEPT !.KV = @ + 1]
    IN  IF mp = <<>>
        THEN [c1 EXCEPT !.NotIdent = @ + 1]
        ELSE LET t == TallyFor(mp[1])
             IN  [c1 EXCEPT ![t] = TallyCount(@, mp[1].Identical, mp[1].Partial)]

\* Count.Add with c.KV = o.KV in place of c.KV += o.KV
CountAddAssignKV(c, o) ==
    [ID |-> c.ID,
     Literals |-> c.Literals + o.Literals,
     KV |-> o.KV,
     NotIdent |-> c.NotIdent + o.NotIdent,
     Ident |-> TallyAdd(c.Ident, o.Ident),
     QualifiedIdent |-> TallyAdd(c.QualifiedIdent, o.QualifiedIdent),
     Star |-> TallyAdd(c.Star, o.Star),
     QualifiedStar |-> TallyAdd(c.QualifiedStar, o.QualifiedStar),
     Amp |-> TallyAdd(c.Amp, o.Amp),
     QualifiedAmp |-> TallyAdd(c.QualifiedAmp, o.QualifiedAmp)]

\* c.Add(o)
CountAdd(c, o) ==
    [ID |-> c.ID,
     Literals |-> c.Literals + o.Literals,
     KV |-> c.KV + o.KV,
     NotIdent |-> c.NotIdent + o.NotIdent,
     Ident |-> TallyAdd(c.Ident, o.Ident),
     QualifiedIdent |-> TallyAdd(c.QualifiedIdent, o.QualifiedIdent),
     Star |-> TallyAdd(c.Star, o.Star),
     QualifiedStar |-> TallyAdd(c.QualifiedStar, o.QualifiedStar),
     Amp |-> TallyAdd(c.Amp, o.Amp),
     QualifiedAmp |-> TallyAdd(c.QualifiedAmp, o.QualifiedAmp)]

(***************************************************************************)
(* SpecMatch: MatchOf and Count.Count on one key/value pair.               *)
(***************************************************************************)
NoID == <<>>

\* the value expressions MatchOf is tried on: chains of *, &, - and .name over an
\* identifier, a literal, a call or a composite literal
MatchVocabulary ==
    [Leaves |-> {Ident(x) : x \in Names}
                  \cup {BasicLit, CallExpr(<<>>), CompositeLit(TRUE, <<>>)},
     N |-> Names, K |-> {}, Ops |-> UnaryOps, Wrap |-> {"StarExpr"}]

MatchKVs ==
    {KeyValueExpr(key, e) : key \in Names, e \in ExprsUpTo(MatchVocabulary, MaxValueNodes)}

MainIdle ==
    /\ ps = <<>> /\ cancelled = FALSE /\ walked = <<>>
    /\ next = 0 /\ count = <<>> /\ file = 0 /\ stack = <<>>
    /\ total = New(NoID) /\ counts = <<>> /\ out = <<>>

MainUnchanged ==
    UNCHANGED <<ps, cancelled, walked, next, count, file, stack, total, counts, out>>

MatchIdle == kv = <<>> /\ m = <<>> /\ rec = New(NoID)

MatchUnchanged == UNCHANGED <<kv, m, rec>>

Idle ==
    /\ pool = <<>> /\ tallies = <<>> /\ ps = <<>> /\ cancelled = FALSE /\ walked = <<>>
    /\ next = 0 /\ count = <<>> /\ file = 0 /\ stack = <<>>
    /\ total = New(NoID) /\ counts = <<>> /\ out = <<>>

IdleUnchanged ==
    UNCHANGED <<pool, tallies, ps, cancelled, walked, next, count, file, stack, total,
                counts, out>>

InitMatch ==
    /\ pc = "kv"
    /\ kv \in {<<e>> : e \in MatchKVs}
    /\ m = <<>>
    /\ rec = New(NoID)
    /\ Idle

\* m := MatchOf(kv)
DoMatchOf ==
    /\ pc = "kv"
    /\ m' = MatchOf(kv[1])
    /\ pc' = "matched"
    /\ UNCHANGED <<kv, rec>>
    /\ IdleUnchanged

\* New("").Count(m)
DoRecord ==
    /\ pc = "matched"
    /\ rec' = CountCount(rec, m)
    /\ pc' = "recorded"
    /\ UNCHANGED <<kv, m>>
    /\ IdleUnchanged

NextMatch == DoMatchOf \/ DoRecord

SpecMatch == InitMatch /\ [][NextMatch]_vars

(***************************************************************************)
(* SpecTally: a client of type Tally alone, calling Count with any two     *)
(* booleans and Add with any Tally it holds (itself included).             *)
(***************************************************************************)
TallyIdx == {"s", "t"}

InitTally ==
    /\ pc = "tally"
    /\ tallies = [i \in TallyIdx |-> ZeroTally]
    /\ pool = <<>>
    /\ MatchIdle
    /\ MainIdle

\* tallies[i].Count(Exact, EqualsFold)
DoTallyCount(i, Exact, EqualsFold) ==
    /\ pc = "tally"
    /\ tallies[i].Total < MaxTotal
    /\ tallies' = [tallies EXCEPT ![i] = TallyCount(@, Exact, EqualsFold)]
    /\ UNCHANGED <<pc, pool>>
    /\ MatchUnchanged
    /\ MainUnchanged

\* tallies[i].Add(tallies[j])
DoTallyAdd(i, j) ==
    /\ pc = "tally"
    /\ tallies[i].Total + tallies[j].Total <= MaxTotal
    /\ tallies' = [tallies EXCEPT ![i] = TallyAdd(@, tallies[j])]
    /\ UNCHANGED <<pc, pool>>
    /\ MatchUnchanged
    /\ MainUnchanged

NextTally ==
    \/ \E i \in TallyIdx, Exact \in BOOLEAN, EqualsFold \in BOOLEAN :
          DoTallyCount(i, Exact, EqualsFold)
    \/ \E i \in TallyIdx, j \in TallyIdx : DoTallyAdd(i, j)

SpecTally == InitTally /\ [][NextTally]_vars

(***************************************************************************)
(* SpecCount: a client of type Count, calling Count with what MatchOf      *)
(* returns, counting literals as CountPackage does, and merging the Counts *)
(* it holds with Add (a Count into itself included).                       *)
(***************************************************************************)
CountIdx == {"A", "B", "C"}

\* a value of every shape, with every outcome of the name comparison against
\* the key X among them, and two expressions that are no candidates
PoolValues ==
    LET X == Ident(<<"X">>)
        x == Ident(<<"x">>)
        y == Ident(<<"y">>)
    IN  {X, x, y,
         SelectorExpr(y, <<"X">>),
         StarExpr(y),
         StarExpr(SelectorExpr(y, <<"X">>)),
         UnaryExpr("&", x),
         UnaryExpr("&", SelectorExpr(y, <<"x">>)),
         BasicLit,
         SelectorExpr(SelectorExpr(y, <<"y">>), <<"X">>)}

PoolKVs == {KeyValueExpr(<<"X">>, e) : e \in PoolValues}

RECURSIVE SumOver(_, _)
SumOver(f, S) ==
    IF S = {} THEN 0
    ELSE LET x == CHOOSE y \in S : TRUE IN f[x] + SumOver(f, S \ {x})

\* the pairs recorded in all of the pool
PoolKV == SumOver([i \in CountIdx |-> pool[i].KV], CountIdx)

InitCount ==
    /\ pc = "count"
    /\ pool = [i \in CountIdx |-> New(NoID)]
    /\ tallies = <<>>
    /\ MatchIdle
    /\ MainIdle

\* pool[i].Count(MatchOf(kv))
DoCount(i, e) ==
    /\ pc = "count"
    /\ PoolKV < MaxKV
    /\ pool' = [pool EXCEPT ![i] = CountCount(@, MatchOf(e))]
    /\ UNCHANGED <<pc, tallies>>
    /\ MatchUnchanged
    /\ MainUnchanged

\* pool[i].Literals++, as CountPackage does after the pairs of a keyed literal
DoLiteral(i) ==
    /\ pc = "count"
    /\ pool[i].Literals < pool[i].KV
    /\ pool' = [pool EXCEPT ![i].Literals = @ + 1]
    /\ UNCHANGED <<pc, tallies>>
    /\ MatchUnchanged
    /\ MainUnchanged

\* pool[i].Add(pool[j])
DoAdd(i, j) ==
    /\ pc = "count"
    /\ PoolKV + pool[j].KV <= MaxKV
    /\ pool' = [pool EXCEPT ![i] = CountAdd(@, pool[j])]
    /\ UNCHANGED <<pc, tallies>>
    /\ MatchUnchanged
    /\ MainUnchanged

NextCount ==
    \/ \E i \in CountIdx, e \in PoolKVs : DoCount(i, e)
    \/ \E i \in CountIdx : DoLiteral(i)
    \/ \E i \in CountIdx, j \in CountIdx : DoAdd(i, j)

SpecCount == InitCount /\ [][NextCount]_vars

(***************************************************************************)
(* CountPackage: ast.Inspect calls the function literal on every node of   *)
(* every file, parents before children, children in source order.          *)
(***************************************************************************)
\* the loop over c.Elts: count.Count(MatchOf(kv)) for every key/value element
RECURSIVE CountElts(_, _)
CountElts(c, elts) ==
    IF elts = <<>> THEN c
    ELSE CountElts(IF Head(elts).Kind = "KeyValueExpr"
                   THEN CountCount(c, MatchOf(Head(elts)))
                   ELSE c,
                   Tail(elts))

\* keyed, after the loop over c.Elts
Keyed(elts) == \E i \in 1..Len(elts) : elts[i].Kind = "KeyValueExpr"

\* the function literal without the test of typ.Underlying()
CallbackAnyLiteral(c, n) ==
    IF n.Kind = "CompositeLit"
    THEN LET c1 == CountElts(c, n.Kids)
         IN  IF Keyed(n.Kids) THEN [c1 EXCEPT !.Literals = @ + 1] ELSE c1
    ELSE c

\* the function literal handed to ast.Inspect, applied to node n
Callback(c, n) ==
    IF n.Kind = "CompositeLit" /\ n.Struct
    THEN LET c1 == CountElts(c, n.Kids)
         IN  IF Keyed(n.Kids) THEN [c1 EXCEPT !.Literals = @ + 1] ELSE c1
    ELSE c

\* a package: its ID and its files
Package(ID, Syntax) == [ID |-> ID, Syntax |-> Syntax]

\* the callback on the next node in pre-order; ast.Inspect goes on with its children
Visit ==
    /\ pc = "inspect"
    /\ stack # <<>>
    /\ count' = <<Callback(count[1], Head(stack))>>
    /\ stack' = Head(stack).Kids \o Tail(stack)
    /\ UNCHANGED <<pc, ps, cancelled, walked, next, file, total, counts, out>>
    /\ UNCHANGED <<pool, tallies>>
    /\ MatchUnchanged

\* for _, f := range p.Syntax: the next file
NextFile ==
    /\ pc = "inspect"
    /\ stack = <<>>
    /\ file < Len(ps[next].Syntax)
    /\ file' = file + 1
    /\ stack' = <<ps[next].Syntax[file + 1]>>
    /\ UNCHANGED <<pc, ps, cancelled, walked, next, count, total, counts, out>>
    /\ UNCHANGED <<pool, tallies>>
    /\ MatchUnchanged

\* every file of the package has been inspected
WalkOver == pc = "inspect" /\ stack = <<>> /\ file >= Len(ps[next].Syntax)

(***************************************************************************)
(* SpecWalk: CountPackage on one package.                                  *)
(***************************************************************************)
\* a package identifier is a string, here the sequence of its bytes
PkgIDs == {<<97>>, <<97, 47, 98>>, <<98>>}

WalkVocabulary ==
    [Leaves |-> {Ident(<<"x">>), BasicLit,
                 CompositeLit(TRUE, <<>>), CompositeLit(FALSE, <<>>)},
     N |-> {}, K |-> {<<"X">>}, Ops |-> {"&"}, Wrap |-> {"CallExpr", "CompositeLit"}]

\* the lists of files of n nodes in all, a file being a node itself
RECURSIVE Syntaxes(_)
Syntaxes(n) ==
    IF n <= 0 THEN {<<>>}
    ELSE UNION {
        {<<File(f)>> \o r : f \in Forests(WalkVocabulary, k - 1, FALSE), r \in Syntaxes(n - k)}
        : k \in 1..n}

WalkPackages == {Package(<<97>>, sx) : sx \in UNION {Syntaxes(n) : n \in 0..MaxPkgNodes}}

InitWalk ==
    /\ ps \in {<<p>> : p \in WalkPackages}
    /\ pc = "inspect"
    /\ next = 1
    /\ count = <<New(ps[1].ID)>>
    /\ file = 0
    /\ stack = <<>>
    /\ cancelled = FALSE /\ walked = <<>>
    /\ total = New(NoID) /\ counts = <<>> /\ out = <<>>
    /\ pool = <<>> /\ tallies = <<>>
    /\ MatchIdle

\* return count
WalkReturn ==
    /\ WalkOver
    /\ pc' = "returned"
    /\ UNCHANGED <<ps, cancelled, walked, next, count, file, stack, total, counts, out>>
    /\ UNCHANGED <<pool, tallies>>
    /\ MatchUnchanged

NextWalk == Visit \/ NextFile \/ WalkReturn

SpecWalk == InitWalk /\ [][NextWalk]_vars

(***************************************************************************)
(* Count.String: what a block shows.  Partial is <<>> where "N/A" is       *)
(* printed.                                                                *)
(***************************************************************************)
\* the closure tally(nm, qual, t): no line when t.Total = 0
TallyLines(nm, qual, t) ==
    IF t.Total = 0 THEN <<>>
    ELSE <<[Label |-> nm,
            Total |-> t.Total,
            NoMatch |-> t.Total - t.Exact - t.EqualsFold,
            Exact |-> t.Exact,
            Partial |-> IF qual THEN <<>> ELSE <<t.EqualsFold>>]>>

CountString(c) ==
    IF c.Literals = 0
    THEN [ID |-> c.ID, Empty |-> TRUE, Literals |-> 0, KV |-> 0, NotIdent |-> 0,
          Tallies |-> <<>>]
    ELSE [ID |-> c.ID, Empty |-> FALSE, Literals |-> c.Literals, KV |-> c.KV,
          NotIdent |-> c.NotIdent,
          Tallies |-> TallyLines("ident", FALSE, c.Ident)
                        \o TallyLines("qual.ident", TRUE, c.QualifiedIdent)
                        \o TallyLines("*ident", FALSE, c.Star)
                        \o TallyLines("*qual.ident", TRUE, c.QualifiedStar)
                        \o TallyLines("&ident", FALSE, c.Amp)
                        \o TallyLines("&qual.ident", TRUE, c.QualifiedAmp)]

(***************************************************************************)
(* Main                                                                    *)
(***************************************************************************)
\* "<total>"
TotalID == <<60, 116, 111, 116, 97, 108, 62>>

\* a < b on strings: byte-wise lexicographic order
RECURSIVE Less(_, _)
Less(a, b) ==
    IF b = <<>> THEN FALSE
    ELSE IF a = <<>> THEN TRUE
    ELSE IF Head(a) # Head(b) THEN Head(a) < Head(b)
    ELSE Less(Tail(a), Tail(b))

\* the less function handed to sort.Slice
LessByID(c, d) == Less(c.ID, d.ID)

\* what sort.Slice may leave in cs: a permutation no two elements of which are
\* out of order
Sorted(cs) ==
    {[i \in 1..Len(cs) |-> cs[f[i]]] :
        f \in {g \in [1..Len(cs) -> 1..Len(cs)] :
                  /\ \A i, j \in 1..Len(cs) : i # j => g[i] # g[j]
                  /\ \A i, j \in 1..Len(cs) : i < j => ~LessByID(cs[g[j]], cs[g[i]])}}

\* the test len(counts) > 1 written len(counts) > 0
IncludeTotalAlways(cs) == Len(cs) > 0

\* don't include total if there's only one package
IncludeTotal(cs) == Len(cs) > 1

\* the files of the packages Main is run on
CorpusSyntaxes ==
    {<<File(<<CompositeLit(TRUE, <<Ident(<<"x">>), BasicLit>>)>>)>>,
     <<File(<<CompositeLit(TRUE, <<KeyValueExpr(<<"X">>, Ident(<<"x">>)),
                                   KeyValueExpr(<<"y">>, BasicLit)>>)>>)>>,
     <<File(<<UnaryExpr("&", CompositeLit(TRUE,
                <<KeyValueExpr(<<"X">>, SelectorExpr(Ident(<<"y">>), <<"x">>))>>))>>),
       File(<<CompositeLit(FALSE,
                <<CompositeLit(TRUE, <<KeyValueExpr(<<"X">>, StarExpr(Ident(<<"X">>)))>>)>>)>>)>>}

\* what packages.Load may return without error: packages of distinct IDs
RECURSIVE PackageLists(_)
PackageLists(n) ==
    IF n = 0 THEN {<<>>}
    ELSE {Append(l, Package(id, sx)) :
            l \in {k \in PackageLists(n - 1) : Len(k) = n - 1},
            id \in PkgIDs, sx \in CorpusSyntaxes}
         \cup PackageLists(n - 1)

DistinctIDs(l) == \A i, j \in 1..Len(l) : i # j => l[i].ID # l[j].ID

Loadable == {l \in PackageLists(MaxPkgs) : DistinctIDs(l)}

Init ==
    /\ pc = "load"
    /\ ps = <<>>
    /\ cancelled = FALSE
    /\ walked = <<>>
    /\ next = 0
    /\ count = <<>>
    /\ file = 0
    /\ stack = <<>>
    /\ total = New(NoID)
    /\ counts = <<>>
    /\ out = <<>>
    /\ pool = <<>> /\ tallies = <<>>
    /\ MatchIdle

\* os.Interrupt is delivered: signal.NotifyContext cancels ctx and the process
\* goes on
Interrupt ==
    /\ pc \in {"load", "range", "inspect", "print"}
    /\ ~cancelled
    /\ cancelled' = TRUE
    /\ UNCHANGED <<pc, ps, walked, next, count, file, stack, total, counts, out>>
    /\ UNCHANGED <<pool, tallies>>
    /\ MatchUnchanged

\* GetPackages returns an error: packages.Load failed (as it does once ctx is
\* cancelled), a package has errors, or no package matched
GetPackagesError ==
    /\ pc = "load"
    /\ pc' = "error"
    /\ UNCHANGED <<ps, cancelled, walked, next, count, file, stack, total, counts, out>>
    /\ UNCHANGED <<pool, tallies>>
    /\ MatchUnchanged

\* GetPackages returns ps; total := New("<total>"); counts := []*Count{}
GetPackagesOK ==
    /\ pc = "load"
    /\ ~cancelled
    /\ \E l \in Loadable : Len(l) > 0 /\ ps' = l
    /\ total' = New(TotalID)
    /\ counts' = <<>>
    /\ next' = 1
    /\ pc' = "range"
    /\ UNCHANGED <<cancelled, walked, count, file, stack, out>>
    /\ UNCHANGED <<pool, tallies>>
    /\ MatchUnchanged

\* the range loop takes the next package and calls CountPackage: count := New(p.ID)
BeginWalk ==
    /\ pc = "range"
    /\ next <= Len(ps)
    /\ count' = <<New(ps[next].ID)>>
    /\ file' = 0
    /\ stack' = <<>>
    /\ walked' = Append(walked, cancelled)
    /\ pc' = "inspect"
    /\ UNCHANGED <<ps, cancelled, next, total, counts, out>>
    /\ UNCHANGED <<pool, tallies>>
    /\ MatchUnchanged

\* the loop body with total.Add(c) placed before the walk of c
EndWalkMergedBeforeWalk ==
    /\ WalkOver
    /\ total' = CountAdd(total, New(count[1].ID))
    /\ counts' = Append(counts, count[1])
    /\ count' = <<>>
    /\ next' = next + 1
    /\ pc' = "range"
    /\ UNCHANGED <<ps, cancelled, walked, file, stack, out>>
    /\ UNCHANGED <<pool, tallies>>
    /\ MatchUnchanged

\* CountPackage returns c; total.Add(c); counts = append(counts, c)
EndWalk ==
    /\ WalkOver
    /\ total' = CountAdd(total, count[1])
    /\ counts' = Append(counts, count[1])
    /\ count' = <<>>
    /\ next' = next + 1
    /\ pc' = "range"
    /\ UNCHANGED <<ps, cancelled, walked, file, stack, out>>
    /\ UNCHANGED <<pool, tallies>>
    /\ MatchUnchanged

\* after the loop: sort.Slice(counts, ...); append total if len(counts) > 1
SortCounts ==
    /\ pc = "range"
    /\ next > Len(ps)
    /\ \E sorted \in Sorted(counts) :
          counts' = IF IncludeTotal(sorted) THEN Append(sorted, total) ELSE sorted
    /\ pc' = "print"
    /\ UNCHANGED <<ps, cancelled, walked, next, count, file, stack, total, out>>
    /\ UNCHANGED <<pool, tallies>>
    /\ MatchUnchanged

\* fmt.Println(c) for the next c of counts
Println ==
    /\ pc = "print"
    /\ Len(out) < Len(counts)
    /\ out' = Append(out, CountString(counts[Len(out) + 1]))
    /\ UNCHANGED <<pc, ps, cancelled, walked, next, count, file, stack, total, counts>>
    /\ UNCHANGED <<pool, tallies>>
    /\ MatchUnchanged

\* return nil
Return ==
    /\ pc = "print"
    /\ Len(out) = Len(counts)
    /\ pc' = "done"
    /\ UNCHANGED <<ps, cancelled, walked, next, count, file, stack, total, counts, out>>
    /\ UNCHANGED <<pool, tallies>>
    /\ MatchUnchanged

Next ==
    \/ Interrupt
    \/ GetPackagesError
    \/ GetPackagesOK
    \/ BeginWalk
    \/ Visit
    \/ NextFile
    \/ EndWalk
    \/ SortCounts
    \/ Println
    \/ Return

Spec == Init /\ [][Next]_vars

(***************************************************************************)
(* Properties.                                                             *)
(***************************************************************************)
\* every Count of the state
EveryCount ==
    {pool[i] : i \in DOMAIN pool} \cup {count[i] : i \in DOMAIN count}
      \cup {counts[i] : i \in DOMAIN counts} \cup {total, rec}

\* the numeric fields of a Count, in the order of the declarations
Fields(c) ==
    <<c.Literals, c.KV, c.NotIdent,
      c.Ident.Total, c.Ident.Exact, c.Ident.EqualsFold,
      c.QualifiedIdent.Total, c.QualifiedIdent.Exact, c.QualifiedIdent.EqualsFold,
      c.Star.Total, c.Star.Exact, c.Star.EqualsFold,
      c.QualifiedStar.Total, c.QualifiedStar.Exact, c.QualifiedStar.EqualsFold,
      c.Amp.Total, c.Amp.Exact, c.Amp.EqualsFold,
      c.QualifiedAmp.Total, c.QualifiedAmp.Exact, c.QualifiedAmp.EqualsFold>>

ZeroFields == Fields(New(NoID))

\* the sum of the Totals of the six tallies
TallyTotals(c) ==
    c.Ident.Total + c.QualifiedIdent.Total + c.Star.Total + c.QualifiedStar.Total
      + c.Amp.Total + c.QualifiedAmp.Total

\* C1: in every Count reached by Count.Count calls on what MatchOf returns and by
\* Count.Add merges, KV = NotIdent + the sum of Total over the six tallies.
C1_KVIsNotIdentPlusTotals ==
    \A c \in EveryCount : c.KV = c.NotIdent + TallyTotals(c)

\* C1 witness: a Count that holds a non-candidate pair and candidate pairs, beside
\* another Count holding pairs (merging is enabled between them).
C1_Witness ==
    /\ pc = "count"
    /\ pool["A"].NotIdent = 1 /\ pool["A"].Ident.Total = 1 /\ pool["A"].KV = 2
    /\ pool["B"].KV = 1 /\ pool["B"].QualifiedAmp.Total = 1

\* in every Tally, Exact + EqualsFold <= Total (so Total - Exact - EqualsFold is
\* not negative)
C2_Bounded ==
    \A i \in DOMAIN tallies : tallies[i].Exact + tallies[i].EqualsFold <= tallies[i].Total

\* a step that records one pair (Total grows by one) does not raise both Exact
\* and EqualsFold
C2_OnePairOneCounter ==
    \A i \in DOMAIN tallies :
        (i \in DOMAIN tallies' /\ tallies'[i].Total = tallies[i].Total + 1)
        => ~(tallies'[i].Exact > tallies[i].Exact
             /\ tallies'[i].EqualsFold > tallies[i].EqualsFold)

\* C2: Exact + EqualsFold <= Total in every reachable Tally, and no single recorded
\* pair increments both Exact and EqualsFold.
C2_ExactPlusFoldAtMostTotal == [](C2_Bounded) /\ [][C2_OnePairOneCounter]_vars

\* C2 witness: a Tally with an exact, a partial and an unmatched pair, next to one
\* that was merged into it.
C2_Witness ==
    /\ pc = "tally"
    /\ tallies["s"] = [Total |-> 3, Exact |-> 1, EqualsFold |-> 1]
    /\ tallies["t"] = [Total |-> 1, Exact |-> 1, EqualsFold |-> 0]

\* the key/value pairs below a node, and in a list of nodes
RECURSIVE PairsBelow(_), PairsAmong(_)
PairsBelow(n) ==
    (IF n.Kind = "KeyValueExpr" THEN {n} ELSE {}) \cup PairsAmong(n.Kids)

PairsAmong(ns) ==
    IF ns = <<>> THEN {} ELSE PairsBelow(Head(ns)) \cup PairsAmong(Tail(ns))

IsIdent(e) == e.Kind = "Ident"
IsQualified(e) == e.Kind = "SelectorExpr" /\ e.Kids[1].Kind = "Ident"

RECURSIVE MergedUpTo(_, _)
MergedUpTo(cs, n) ==
    IF n = 0 THEN New(NoID) ELSE CountAdd(MergedUpTo(cs, n - 1), cs[n])

Merged(cs) == MergedUpTo(cs, Len(cs))

\* C4: Count.Add is commutative and associative on the numeric fields: the Counts
\* A, B, C merged into a fresh Count in any order or grouping give the same
\* fields; Add of an all-zero Count changes no field (of a Count with pairs or of
\* an all-zero one), and all-zero Counts merge into an all-zero Count.
C4_AddCommutativeAssociative ==
    pool # <<>> =>
    LET A == pool["A"]
        B == pool["B"]
        C == pool["C"]
        abc == Fields(Merged(<<A, B, C>>))
    IN  /\ \A o \in {<<A, C, B>>, <<B, A, C>>, <<B, C, A>>, <<C, A, B>>, <<C, B, A>>} :
              Fields(Merged(o)) = abc
        /\ Fields(Merged(<<Merged(<<A, B>>), C>>)) = abc
        /\ Fields(Merged(<<A, Merged(<<B, C>>)>>)) = abc
        /\ Fields(CountAdd(A, B)) = Fields(CountAdd(B, A))
        /\ \A c \in {A, B, C} :
              /\ Fields(CountAdd(c, New(NoID))) = Fields(c)
              /\ Fields(CountAdd(New(NoID), c)) = Fields(c)
        /\ Fields(CountAdd(New(NoID), New(NoID))) = ZeroFields
        /\ Fields(Merged(<<New(NoID), New(NoID), New(NoID), New(NoID), New(NoID)>>))
              = ZeroFields

\* C4 witness: three Counts that differ from each other and from zero, one of
\* them with a literal counted.
C4_Witness ==
    /\ pc = "count"
    /\ pool["A"].KV = 1 /\ pool["B"].KV = 1 /\ pool["C"].KV = 1
    /\ pool["A"].Literals = 1
    /\ Fields(pool["A"]) # Fields(pool["B"])
    /\ Fields(pool["B"]) # Fields(pool["C"])
    /\ Fields(pool["A"]) # Fields(pool["C"])

\* the shape of a value expression as section 4.1 of the specification lists them,
\* named by the tally it belongs to; "none" for a non-candidate
ShapeOf(v) ==
    CASE IsIdent(v) -> "Ident"
      [] IsQualified(v) -> "QualifiedIdent"
      [] v.Kind = "StarExpr" /\ IsIdent(v.Kids[1]) -> "Star"
      [] v.Kind = "StarExpr" /\ IsQualified(v.Kids[1]) -> "QualifiedStar"
      [] v.Kind = "UnaryExpr" /\ v.Op = "&" /\ IsIdent(v.Kids[1]) -> "Amp"
      [] v.Kind = "UnaryExpr" /\ v.Op = "&" /\ IsQualified(v.Kids[1]) -> "QualifiedAmp"
      [] OTHER -> "none"

\* the name the key is compared with: x of x, *x, &x; b of a.b, *a.b, &a.b
ResolvedName(v) ==
    LET base == IF v.Kind \in {"StarExpr", "UnaryExpr"} THEN v.Kids[1] ELSE v
    IN  IF IsIdent(base) THEN base.Name ELSE base.Kids[2].Name

\* C5: MatchOf puts every value expression in exactly one shape, and a
\* non-candidate (nil Match) increments KV and NotIdent only.
C5_OneShapeOrNonCandidate ==
    pc \in {"matched", "recorded"} =>
    LET sh == ShapeOf(ValueOf(kv[1]))
    IN  /\ (m = <<>>) <=> (sh = "none")
        /\ m # <<>> =>
              /\ TallyFor(m[1]) = sh
              /\ m[1].Regular <=> (sh = "Ident")
              /\ m[1].Star <=> (sh \in {"Star", "QualifiedStar"})
              /\ m[1].Amp <=> (sh \in {"Amp", "QualifiedAmp"})
              /\ m[1].Selector <=> (sh \in QualifiedNames)
        /\ pc = "recorded" =>
              /\ rec.KV = 1
              /\ rec.Literals = 0
              /\ rec.NotIdent = (IF sh = "none" THEN 1 ELSE 0)
              /\ \A t \in TallyNames :
                    rec[t].Total = (IF t = sh THEN 1 ELSE 0)
                    /\ (t # sh => rec[t] = ZeroTally)

\* C5 witness: the chain a.b.c has been recorded as a non-candidate.
C5_Witness ==
    /\ pc = "recorded"
    /\ ValueOf(kv[1]).Kind = "SelectorExpr"
    /\ IsQualified(ValueOf(kv[1]).Kids[1])
    /\ rec.NotIdent = 1

\* C6: for a candidate with key k, resolved name n and qualified flag q, Identical
\* = (k = n) and Partial = (k # n and not q and k, n equal under case folding);
\* never both; *x and &x follow the rule of x; the tally records Exact for
\* Identical and EqualsFold for Partial.
C6_IdenticalPartialRule ==
    (pc \in {"matched", "recorded"} /\ ShapeOf(ValueOf(kv[1])) # "none") =>
    LET sh == ShapeOf(ValueOf(kv[1]))
        k == KeyOf(kv[1]).Name
        n == ResolvedName(ValueOf(kv[1]))
        q == sh \in QualifiedNames
        identical == k = n
        partial == k # n /\ ~q /\ EqualFold(k, n)
    IN  /\ m # <<>>
        /\ m[1].Identical = identical
        /\ m[1].Partial = partial
        /\ ~(m[1].Identical /\ m[1].Partial)
        /\ pc = "recorded" =>
              /\ rec[sh].Exact = (IF identical THEN 1 ELSE 0)
              /\ rec[sh].EqualsFold = (IF partial THEN 1 ELSE 0)

\* C6 witness: Xy: &xY has been recorded as a partial match of the &ident tally.
C6_Witness ==
    /\ pc = "recorded"
    /\ KeyOf(kv[1]).Name = <<"X", "y">>
    /\ ValueOf(kv[1]) = UnaryExpr("&", Ident(<<"x", "Y">>))
    /\ rec.Amp = [Total |-> 1, Exact |-> 0, EqualsFold |-> 1]

\* a keyed struct literal, and its number of key/value elements
IsKeyedStructLit(n) ==
    /\ n.Kind = "CompositeLit"
    /\ n.Struct
    /\ \E i \in 1..Len(n.Kids) : n.Kids[i].Kind = "KeyValueExpr"

NumPairs(n) == Cardinality({i \in 1..Len(n.Kids) : n.Kids[i].Kind = "KeyValueExpr"})

\* the keyed struct literals at and below a node or a list of nodes, and their pairs
RECURSIVE LiteralsBelow(_), LiteralsAmong(_), KVBelow(_), KVAmong(_)
LiteralsBelow(n) == (IF IsKeyedStructLit(n) THEN 1 ELSE 0) + LiteralsAmong(n.Kids)

LiteralsAmong(ns) ==
    IF ns = <<>> THEN 0 ELSE LiteralsBelow(Head(ns)) + LiteralsAmong(Tail(ns))

KVBelow(n) == (IF IsKeyedStructLit(n) THEN NumPairs(n) ELSE 0) + KVAmong(n.Kids)

KVAmong(ns) == IF ns = <<>> THEN 0 ELSE KVBelow(Head(ns)) + KVAmong(Tail(ns))

\* C7: after CountPackage has walked a package, Literals is the number of keyed
\* struct literals of its files, at any depth, and KV the number of their
\* key/value elements.
C7_LiteralsAndKV ==
    pc = "returned" =>
        /\ count[1].Literals = LiteralsAmong(ps[1].Syntax)
        /\ count[1].KV = KVAmong(ps[1].Syntax)

\* C7 witness: a walk is over that met a keyed struct literal nested in a keyed
\* struct literal.
C7_Witness ==
    /\ pc = "returned"
    /\ count[1].Literals = 2
    /\ \E i \in 1..Len(ps[1].Syntax) : \E n \in {ps[1].Syntax[i].Kids[j] : j \in 1..Len(ps[1].Syntax[i].Kids)} :
          /\ IsKeyedStructLit(n)
          /\ IsKeyedStructLit(ValueOf(n.Kids[1]))

\* C8: once the interrupt has been delivered, no package walk is started.
C8_NoWalkStartsAfterInterrupt ==
    \A i \in 1..Len(walked) : ~walked[i]

\* C9: on a successful run Main prints one block per package, in ascending order
\* of ID, then the <total> block if and only if there is more than one package.
C9_BlocksInOrderTotalLast ==
    pc = "done" =>
    LET n == Len(ps)
    IN  /\ Len(out) = (IF n > 1 THEN n + 1 ELSE n)
        /\ {out[i].ID : i \in 1..n} = {ps[i].ID : i \in 1..n}
        /\ \A i, j \in 1..n : i < j => Less(out[i].ID, out[j].ID)
        /\ \A i \in 1..n : out[i].ID # TotalID
        /\ n > 1 => out[n + 1].ID = TotalID

\* C9 witness: a run on packages loaded out of order has ended.
C9_Witness ==
    /\ pc = "done"
    /\ Len(ps) > 1
    /\ Less(ps[2].ID, ps[1].ID)
    /\ out[Len(out)].ID = TotalID

\* the field-wise sum of the Counts of a list
RECURSIVE SumFields(_)
SumFields(cs) ==
    IF cs = <<>> THEN ZeroFields
    ELSE LET r == SumFields(Tail(cs))
         IN  [k \in DOMAIN ZeroFields |-> Fields(Head(cs))[k] + r[k]]

\* the walks begun so far
Begun == IF pc = "inspect" THEN next ELSE next - 1

\* C10, in the states: while the loop runs, the packages before next are the ones
\* walked, each into a Count of its ID, and total is the sum of exactly those
\* finished Counts; once the loop is over every package has been walked once and
\* total is the sum over all per-package Counts.
C10_TotalIsSumOfFinished ==
    /\ pc \in {"range", "inspect"} =>
          /\ Len(counts) = next - 1
          /\ Len(walked) = Begun
          /\ \A i \in 1..Len(counts) : counts[i].ID = ps[i].ID
          /\ Fields(total) = SumFields(counts)
    /\ pc \in {"print", "done"} =>
          /\ Len(walked) = Len(ps)
          /\ {counts[i].ID : i \in 1..Len(ps)} = {ps[i].ID : i \in 1..Len(ps)}
          /\ Fields(total) = SumFields(SubSeq(counts, 1, Len(ps)))

\* C10, in the steps: a walk starts on a fresh Count of the package's ID, a Count is
\* merged and appended only when its walk is over, and a Count of counts is never
\* changed afterwards.
C10_FreshThenFrozen ==
    /\ (pc = "range" /\ pc' = "inspect") => count' = <<New(ps[next].ID)>>
    /\ Len(counts') > Len(counts) /\ pc = "inspect" =>
          /\ stack = <<>> /\ file >= Len(ps[next].Syntax)
          /\ counts' = Append(counts, count[1])
    /\ total' # total /\ pc # "load" =>
          pc = "inspect" /\ stack = <<>> /\ file >= Len(ps[next].Syntax)
    /\ \A i \in 1..Len(counts) : \E j \in 1..Len(counts') : counts'[j] = counts[i]

\* C10: each package is walked once into its own fresh Count, which is merged into
\* <total> only after its walk is over and never changed afterwards, and at the end
\* of the loop <total> is the sum of the per-package Counts.
C10_WalkThenMerge == [](C10_TotalIsSumOfFinished) /\ [][C10_FreshThenFrozen]_vars

\* C10 witness: two packages with pairs have been walked and merged.
C10_Witness ==
    /\ pc = "done"
    /\ Len(ps) = 2
    /\ counts[1].KV > 0 /\ counts[2].KV > 0
    /\ total.KV = counts[1].KV + counts[2].KV
    /\ total.Star.Total > 0

====
